---- MODULE Spec2Model ----
(***************************************************************************)
(* Model of the currency ingestion pipeline of ApiBankiPars:               *)
(*   app/scheduler/parser.py     fetch_html, get_link_info,                *)
(*                               parse_currency_table, fetch_page_data,    *)
(*                               fetch_all_currencies                      *)
(*   app/api/dao.py              CurrencyRateDAO.bulk_update_currency      *)
(*   app/scheduler/scheduller.py upd_data_to_db                            *)
(*   app/main.py                 lifespan (the interval job)               *)
(*                                                                         *)
(* Texts are sequences of one-character strings, so that split, replace    *)
(* and float parsing are computed and not assumed.  Quotes are integers    *)
(* in units of 10^-MaxDecimals.                                            *)
(***************************************************************************)
EXTENDS Integers, Sequences, FiniteSets, TLC

VARIABLES
    schedState,      \* AsyncIOScheduler: "stopped" | "running"
    jobs,            \* the job store: sequence of job ids
    cycle,           \* the running instance of upd_data_to_db: "Idle" | "Collecting" | "Gathered"
    tasks,           \* fetch_page_data coroutines of the cycle, by page
    all_currencies,  \* result of fetch_all_currencies (rez)
    db,              \* committed rows of the CurrencyRate table
    lastCycle,       \* what the last finished cycle did (log of the run)
    instances,       \* the executor's count of running instances of the job
    registered,      \* the last add_job: the jobs it found and the jobs held after it
    pHtml,           \* input of a stand-alone parse_currency_table call
    pOut,            \* its result
    rRecords,        \* records of stand-alone bulk_update_currency calls
    rRuns,           \* log of these calls: one entry per call
    qOut             \* the last read query of the DAO and what it returned

vars == <<schedState, jobs, cycle, tasks, all_currencies, db, lastCycle, instances,
          registered, pHtml, pOut, rRecords, rRuns, qOut>>

---------------------------------------------------------------------------
(* Bounds of the model *)

\* longest table handed to parse_currency_table in SpecParse
MaxRows == 3
\* longest record list handed to bulk_update_currency in SpecReconcile
MaxRecs == 3
\* calls of bulk_update_currency in a row in SpecReconcile
MaxRuns == 2
\* largest value of the retries parameter tried in SpecFetch
MaxRetries == 4
\* digits kept after the decimal point of a quote
MaxDecimals == 2
\* largest table the read queries are run against in SpecQuery
MaxBanks == 3

(* Program constants *)

\* default of fetch_html's retries parameter
DefaultRetries == 3
\* base of the exponential delay, 2 ** attempt
BackoffBase == 2
\* range(1, 5): pages 1..4
LastPage == 4

Pages == 1..LastPage

---------------------------------------------------------------------------
(* Optional values: Python's None against a value *)

None == [isNone |-> TRUE]
Some(v) == [isNone |-> FALSE, v |-> v]

---------------------------------------------------------------------------
(* Text helpers *)

Digits == <<"0", "1", "2", "3", "4", "5", "6", "7", "8", "9">>

IsDigit(c) == \E i \in 1..10 : Digits[i] = c

DigitVal(c) == (CHOOSE i \in 1..10 : Digits[i] = c) - 1

RECURSIVE Pow(_, _)
Pow(b, n) == IF n = 0 THEN 1 ELSE b * Pow(b, n - 1)

\* str.replace(',', '.')
ReplaceComma(s) == [i \in 1..Len(s) |-> IF s[i] = "," THEN "." ELSE s[i]]

\* str.strip(): leading and trailing blanks removed
RECURSIVE StripLeft(_)
StripLeft(s) == IF s # <<>> /\ Head(s) = " " THEN StripLeft(Tail(s)) ELSE s

RECURSIVE StripRight(_)
StripRight(s) ==
    IF s # <<>> /\ s[Len(s)] = " " THEN StripRight(SubSeq(s, 1, Len(s) - 1)) ELSE s

Strip(s) == StripRight(StripLeft(s))

\* str.split(sep): one part more than there are separators
RECURSIVE Split(_, _)
Split(s, sep) ==
    IF \A i \in 1..Len(s) : s[i] # sep
    THEN <<s>>
    ELSE LET i == CHOOSE k \in 1..Len(s) :
                     s[k] = sep /\ \A j \in 1..(k - 1) : s[j] # sep
         IN <<SubSeq(s, 1, i - 1)>> \o Split(SubSeq(s, i + 1, Len(s)), sep)

\* value of a digit string
RECURSIVE DigitsVal(_)
DigitsVal(s) ==
    IF s = <<>> THEN 0 ELSE DigitsVal(SubSeq(s, 1, Len(s) - 1)) * 10 + DigitVal(s[Len(s)])

\* how many digits after the decimal point at index d are kept
FracLen(body, d) ==
    IF Len(body) <= d THEN 0
    ELSE IF Len(body) - d < MaxDecimals THEN Len(body) - d ELSE MaxDecimals

\* the digits before and after the decimal point at index d, as a number
Magnitude(body, d) ==
    DigitsVal(SubSeq(body, 1, d - 1)) * Pow(10, MaxDecimals)
    + DigitsVal(SubSeq(body, d + 1, d + FracLen(body, d)))
      * Pow(10, MaxDecimals - FracLen(body, d))

\* digits with at most one decimal point and at least one digit
IsNumber(body) ==
    /\ \A i \in 1..Len(body) : IsDigit(body[i]) \/ body[i] = "."
    /\ Cardinality({i \in 1..Len(body) : body[i] = "."}) <= 1
    /\ \E i \in 1..Len(body) : IsDigit(body[i])

\* index of the decimal point, Len + 1 when there is none
DotAt(body) ==
    IF \E i \in 1..Len(body) : body[i] = "."
    THEN CHOOSE i \in 1..Len(body) : body[i] = "."
    ELSE Len(body) + 1

\* the magnitude alone: the sign of the text is dropped
UnsignedAbs(body, neg) ==
    IF ~IsNumber(body)
    THEN [ok |-> FALSE, val |-> 0]
    ELSE [ok |-> TRUE, val |-> Magnitude(body, DotAt(body))]

Unsigned(body, neg) ==
    IF ~IsNumber(body)
    THEN [ok |-> FALSE, val |-> 0]
    ELSE [ok |-> TRUE,
          val |-> IF neg THEN 0 - Magnitude(body, DotAt(body)) ELSE Magnitude(body, DotAt(body))]

Signed(s) ==
    IF s # <<>> /\ Head(s) \in {"-", "+"} THEN Unsigned(Tail(s), Head(s) = "-") ELSE Unsigned(s, FALSE)

(* float(text): blanks stripped, [sign] digits [. digits], at least one       *)
(* digit.  ok = FALSE is ValueError.  The value is in units of                *)
(* 10^-MaxDecimals.                                                           *)
ParseFloat(text) == Signed(Strip(text))

---------------------------------------------------------------------------
(* parser.py: get_link_info and parse_currency_table *)

SiteBase == <<"https://ru.myfin.by">>

\* the last named part of the link taken as the key: the bank's own segment
LinkPartsLast(link, parts) ==
    IF Len(parts) < 3
    THEN [raised |-> TRUE, link |-> None, bank_en |-> None]
    ELSE [raised |-> FALSE, link |-> Some(SiteBase \o link),
          bank_en |-> Some(IF parts[Len(parts)] = <<>> THEN parts[Len(parts) - 1]
                           ELSE parts[Len(parts)])]

\* link.split('/')[2] of a non-empty link; raised = TRUE is its IndexError
LinkParts(link, parts) ==
    IF Len(parts) < 3
    THEN [raised |-> TRUE, link |-> None, bank_en |-> None]
    ELSE [raised |-> FALSE, link |-> Some(SiteBase \o link), bank_en |-> Some(parts[3])]

\* "if link: return ...; return None, None"
LinkInfoOf(link) ==
    IF ~link.isNone /\ link.v # <<>>
    THEN LinkParts(link.v, Split(link.v, "/"))
    ELSE [raised |-> FALSE, link |-> None, bank_en |-> None]

(* get_link_info(link_draft).  link_draft is None or a tag [href |-> None or  *)
(* text].                                                                     *)
get_link_info(link_draft) ==
    LinkInfoOf(IF link_draft.isNone THEN None ELSE link_draft.v.href)

\* a cell that is not there read as 0
QuoteOfDefault(cells, i) ==
    IF Len(cells) < i
    THEN [ok |-> TRUE, val |-> 0]
    ELSE ParseFloat(ReplaceComma(Strip(cells[i])))

(* float(row.find_all('td', class_=cls)[i].get_text(strip=True).replace(',', '.')) *)
(* cells: the texts of the row's td cells of that class.  ok = FALSE is the   *)
(* IndexError or the ValueError.                                              *)
QuoteOf(cells, i) ==
    IF Len(cells) < i
    THEN [ok |-> FALSE, val |-> 0]
    ELSE ParseFloat(ReplaceComma(Strip(cells[i])))

Quotes(ub, us, eb, es) ==
    [ok |-> ub.ok /\ us.ok /\ eb.ok /\ es.ok,
     usd_buy |-> ub.val, usd_sell |-> us.val, eur_buy |-> eb.val, eur_sell |-> es.val]

(* The inner try of the row loop: the four quotes, or the exception.          *)
RowQuotes(row) ==
    Quotes(QuoteOf(row.usd, 1), QuoteOf(row.usd, 2), QuoteOf(row.eur, 1), QuoteOf(row.eur, 2))

(* CurrencyRateSchema validation: bank_en and link are str, None is refused   *)
(* (ValidationError).                                                         *)
SchemaAccepts(info) == ~info.bank_en.isNone /\ ~info.link.isNone

\* currencies.append(CurrencyRateSchema(...)), or the exception of building it
RowRecord(row, q, info) ==
    IF info.raised \/ ~SchemaAccepts(info)
    THEN [kind |-> "raise"]
    ELSE [kind |-> "append",
          rec |-> [bank_name |-> row.name.v,
                   bank_en |-> info.bank_en.v,
                   link |-> info.link.v,
                   usd_buy |-> q.usd_buy,
                   usd_sell |-> q.usd_sell,
                   eur_buy |-> q.eur_buy,
                   eur_sell |-> q.eur_sell,
                   update_time |-> row.time.v]]

\* the row loop's body without the inner try: a quote's exception leaves the loop
AfterQuotesNoInnerTry(row, q) ==
    IF ~q.ok \/ row.time.isNone
    THEN [kind |-> "raise"]
    ELSE RowRecord(row, q, get_link_info(row.a))

\* the row loop's body once the quotes q are known or have raised
AfterQuotes(row, q) ==
    IF ~q.ok
    THEN [kind |-> "skip"]
    ELSE IF row.time.isNone
         THEN [kind |-> "raise"]
         ELSE RowRecord(row, q, get_link_info(row.a))

(* One iteration of "for row in rows".  kind is "raise" (an exception that    *)
(* leaves the loop), "skip" (continue) or "append" with the record.           *)
RowStep(row) ==
    IF row.name.isNone THEN [kind |-> "raise"] ELSE AfterQuotes(row, RowQuotes(row))

(* The row loop from row i on, currencies being the records appended so far.  *)
RECURSIVE ParseRows(_, _, _), ParseRowsStep(_, _, _, _)
ParseRows(rows, i, currencies) ==
    IF i > Len(rows)
    THEN [raised |-> FALSE, currencies |-> currencies]
    ELSE ParseRowsStep(rows, i, currencies, RowStep(rows[i]))

ParseRowsStep(rows, i, currencies, step) ==
    CASE step.kind = "raise" -> [raised |-> TRUE, currencies |-> currencies]
      [] step.kind = "skip" -> ParseRows(rows, i + 1, currencies)
      [] OTHER -> ParseRows(rows, i + 1, Append(currencies, step.rec))

\* an outer except that returns the records appended before the exception
ParseResultPartial(r) == r.currencies

\* "return currencies", or "return []" of the outer except
ParseResult(r) == IF r.raised THEN <<>> ELSE r.currencies

(* soup = BeautifulSoup(html, 'html.parser'), which stands before the try:    *)
(* markup that html.parser refuses (an unknown marked section such as         *)
(* "<![foo[ ]]>") makes it raise ParserRejectedMarkup, and so the call.       *)
ParseRaises(html) == html.rejected

(* parse_currency_table(html), when it returns.  html is the page: whether    *)
(* the parser takes it, whether it has table.content_table, whether that has  *)
(* a tbody, and the tbody's rows.                                             *)
parse_currency_table(html) ==
    IF ~html.hasTable \/ ~html.hasTbody
    THEN <<>>
    ELSE ParseResult(ParseRows(html.rows, 1, <<>>))

---------------------------------------------------------------------------
(* Inputs of the parser: cell texts, links and rows *)

T_3c15 == <<"3", ",", "1", "5">>
T_3c20 == <<"3", ",", "2", "0">>
T_3p1  == <<"3", ".", "1">>
T_3c4  == <<" ", "3", ",", "4", " ">>
T_3c5  == <<"3", ",", "5">>
T_dash == <<"-">>
T_neg  == <<"-", "1", ",", "5">>
T_zero == <<"0">>
T_two  == <<"1", ",", "2", ",", "3">>

H_alfa  == <<"/", "bank", "/", "alfa", "/", "currency">>
H_beta  == <<"/", "bank", "/", "beta", "/">>
H_gamma == <<"/", "bank", "/", "gamma", "/">>
H_nokey == <<"/", "bank", "/", "/">>
H_short == <<"/", "bank">>
H_rel   == <<"bank", "/", "alfa">>

H_sber  == <<"/", "currency", "/", "banks", "/", "sber-bank", "/">>
H_rel3  == <<"bank", "/", "alfa", "/", "x">>

Anchor(href) == Some([href |-> Some(href)])

GoodAlfa ==
    [name |-> Some("Alfa"), a |-> Anchor(H_alfa), usd |-> <<T_3c15, T_3c20>>,
     eur |-> <<T_3c4, T_3c5>>, time |-> Some("12:00")]

GoodBeta ==
    [name |-> Some("Beta"), a |-> Anchor(H_beta), usd |-> <<T_3p1, T_3c15>>,
     eur |-> <<T_3c4, T_3c5>>, time |-> Some("12:05")]

GoodGamma ==
    [name |-> Some("Gamma"), a |-> Anchor(H_gamma), usd |-> <<T_3c15, T_3c15>>,
     eur |-> <<T_3c5, T_3c5>>, time |-> Some("12:10")]

\* a later quote of the bank of GoodAlfa
GoodAlfa2 == [GoodAlfa EXCEPT !.usd = <<T_3p1, T_3c20>>, !.time = Some("12:30")]

RowSet ==
    { GoodAlfa, GoodBeta, GoodAlfa2,
      \* one USD cell only: IndexError
      [GoodAlfa EXCEPT !.usd = <<T_3c15>>],
      \* a dash for a quote: ValueError
      [GoodBeta EXCEPT !.eur = <<T_3c4, T_dash>>],
      \* two separators: ValueError
      [GoodBeta EXCEPT !.usd = <<T_two, T_3c15>>],
      \* no quotes, no link, no time
      [GoodAlfa EXCEPT !.usd = <<>>, !.eur = <<>>, !.a = None, !.time = None],
      \* no bank_name cell, with and without quotes
      [GoodAlfa EXCEPT !.name = None],
      [GoodAlfa EXCEPT !.name = None, !.usd = <<>>],
      \* no time element
      [GoodBeta EXCEPT !.time = None],
      \* no link, a link without href, an empty href
      [GoodBeta EXCEPT !.a = None],
      [GoodBeta EXCEPT !.a = Some([href |-> None])],
      [GoodBeta EXCEPT !.a = Anchor(<<>>)],
      \* links with fewer than three parts
      [GoodBeta EXCEPT !.a = Anchor(H_short)],
      [GoodBeta EXCEPT !.a = Anchor(H_rel)],
      \* the same detail link under two bank names
      [GoodAlfa EXCEPT !.name = Some("Sber"), !.a = Anchor(H_sber)],
      [GoodBeta EXCEPT !.a = Anchor(H_sber)],
      \* a link that does not start with '/'
      [GoodBeta EXCEPT !.a = Anchor(H_rel3)],
      \* an empty second path segment
      [GoodBeta EXCEPT !.a = Anchor(H_nokey)],
      \* a negative and a zero quote
      [GoodBeta EXCEPT !.usd = <<T_neg, T_3c15>>],
      [GoodAlfa EXCEPT !.eur = <<T_zero, T_3c5>>] }

RECURSIVE SeqsUpTo(_, _)
SeqsUpTo(S, n) ==
    IF n = 0 THEN {<<>>}
    ELSE LET shorter == SeqsUpTo(S, n - 1)
         IN shorter \cup {Append(q, x) : q \in {t \in shorter : Len(t) = n - 1}, x \in S}

Doc(rows) == [rejected |-> FALSE, hasTable |-> TRUE, hasTbody |-> TRUE, rows |-> rows]

NoTableDoc == [rejected |-> FALSE, hasTable |-> FALSE, hasTbody |-> FALSE, rows |-> <<>>]

NoTbodyDoc == [rejected |-> FALSE, hasTable |-> TRUE, hasTbody |-> FALSE, rows |-> <<>>]

\* a page with markup the parser refuses
RejectedDoc == [rejected |-> TRUE, hasTable |-> FALSE, hasTbody |-> FALSE, rows |-> <<>>]

ParseInputs == {NoTableDoc, NoTbodyDoc, RejectedDoc} \cup {Doc(rows) : rows \in SeqsUpTo(RowSet, MaxRows)}

---------------------------------------------------------------------------
(* parser.py: fetch_html and fetch_page_data, one step per suspension point *)

\* while attempt <= retries: one pass more
LoopCondInclusive(attempt, retries) == attempt <= retries

\* while attempt < retries
LoopCond(attempt, retries) == attempt < retries

\* the check made one attempt too late
ExhaustedLate(attempt, retries) == attempt = retries + 1

\* if attempt == retries
Exhausted(attempt, retries) == attempt = retries

\* 2 * attempt: a wait that grows by 2 instead of doubling
BackoffLinear(attempt) == BackoffBase * attempt

\* 2 ** attempt
Backoff(attempt) == Pow(BackoffBase, attempt)

NoTask ==
    [pc |-> "none", attempt |-> 0, retries |-> 0, gets |-> 0, sleeps |-> <<>>,
     status |-> "none", html |-> None, out |-> <<>>]

\* fetch_page_data(url, session) just created: fetch_html at "attempt = 0"
NewTask(retries) == [NoTask EXCEPT !.pc = "get", !.retries = retries]

\* fetch_page_data after fetch_html returned html: the parser's exception passes through it
PageDataRaises(html) == ~html.isNone /\ ParseRaises(html.v)

(* fetch_page_data after fetch_html returned html: "if html: return parse..." *)
PageDataOf(html) ==
    IF html.isNone \/ PageDataRaises(html) THEN <<>> ELSE parse_currency_table(html.v)

(* fetch_html returns html with this status and fetch_page_data ends: pc is   *)
(* "done" when it returns its records, "raised" when it raises.               *)
Return(t, status, html) ==
    [t EXCEPT !.pc = IF PageDataRaises(html) THEN "raised" ELSE "done",
              !.status = status, !.html = html, !.out = PageDataOf(html)]

(* a pass whose generic except clause logs the unexpected error and then      *)
(* goes on as for a transient one                                             *)
fetch_html_passRetriesAll(t, o) ==
    IF ~LoopCond(t.attempt, t.retries)
    THEN Return(t, "loop_end", None)
    ELSE IF o.kind = "ok"
         THEN Return([t EXCEPT !.gets = t.gets + 1], "ok", Some(o.html))
         ELSE IF Exhausted(t.attempt + 1, t.retries)
              THEN Return([t EXCEPT !.gets = t.gets + 1, !.attempt = t.attempt + 1],
                          IF o.kind = "unexpected" THEN "unexpected" ELSE "exhausted", None)
              ELSE [t EXCEPT !.gets = t.gets + 1, !.attempt = t.attempt + 1, !.pc = "sleep",
                             !.status = IF o.kind = "unexpected" THEN "unexpected" ELSE t.status,
                             !.sleeps = Append(t.sleeps, Backoff(t.attempt + 1))]

(* One pass of the while loop of fetch_html up to its next suspension point   *)
(* or return.  o is what the GET of this pass does: "ok" with the page,       *)
(* "client_error" (ClientError, also raise_for_status), "timeout"             *)
(* (asyncio.TimeoutError) or "unexpected" (any other Exception).              *)
fetch_html_pass(t, o) ==
    IF ~LoopCond(t.attempt, t.retries)
    THEN Return(t, "loop_end", None)
    ELSE LET g == [t EXCEPT !.gets = t.gets + 1]
         IN CASE o.kind = "ok" -> Return(g, "ok", Some(o.html))
              [] o.kind \in {"client_error", "timeout"} ->
                    LET attempt == t.attempt + 1
                    IN IF Exhausted(attempt, t.retries)
                       THEN Return([g EXCEPT !.attempt = attempt], "exhausted", None)
                       ELSE [g EXCEPT !.attempt = attempt, !.pc = "sleep",
                                      !.sleeps = Append(t.sleeps, Backoff(attempt))]
              [] OTHER -> Return(g, "unexpected", None)

---------------------------------------------------------------------------
(* dao.py: CurrencyRateDAO.bulk_update_currency *)

Restrict(f, S) == [k \in S |-> f[k]]

\* an UPDATE without its WHERE clause: every row gets the values
UpdateWhereNoFilter(tx, key, update_data) ==
    [i \in 1..Len(tx) |->
        [f \in DOMAIN tx[i] |-> IF f \in DOMAIN update_data THEN update_data[f] ELSE tx[i][f]]]

\* an upsert: a key that matches no row gets a new row
UpdateWhereUpsert(tx, key, update_data) ==
    IF \E i \in 1..Len(tx) : tx[i].bank_en = key
    THEN [i \in 1..Len(tx) |->
             IF tx[i].bank_en = key
             THEN [f \in DOMAIN tx[i] |->
                      IF f \in DOMAIN update_data THEN update_data[f] ELSE tx[i][f]]
             ELSE tx[i]]
    ELSE Append(tx, [f \in DOMAIN update_data \cup {"bank_en"} |->
                        IF f = "bank_en" THEN key ELSE update_data[f]])

\* an update that adds the new buying rate of USD to the stored one
UpdateWhereDrift(tx, key, update_data) ==
    [i \in 1..Len(tx) |->
        IF tx[i].bank_en = key
        THEN [f \in DOMAIN tx[i] |->
                 IF f \in DOMAIN update_data
                 THEN IF f = "usd_buy" THEN tx[i][f] + update_data[f] ELSE update_data[f]
                 ELSE tx[i][f]]
        ELSE tx[i]]

\* update(model).where(model.bank_en == key).values(**update_data), on the rows tx
UpdateWhere(tx, key, update_data) ==
    [i \in 1..Len(tx) |->
        IF tx[i].bank_en = key
        THEN [f \in DOMAIN tx[i] |->
                 IF f \in DOMAIN update_data THEN update_data[f] ELSE tx[i][f]]
        ELSE tx[i]]

\* a count of the statements executed instead of the rows they matched
RowCountStatements(tx, key) == 1

\* result.rowcount: the rows the statement matched
RowCount(tx, key) == Cardinality({i \in 1..Len(tx) : tx[i].bank_en = key})

\* a check of the value: a missing or an empty bank_en
MissingOrEmptyKey(record_dict) ==
    "bank_en" \notin DOMAIN record_dict \/ record_dict.bank_en = <<>>

\* "if 'bank_en' not in record_dict: continue"
MissingKey(record_dict) == "bank_en" \notin DOMAIN record_dict

\* a rollback that keeps what the unit of work had done
RollbackKeepsWork(committed, tx) == tx

\* session.rollback(): the rows are those of the last commit
Rollback(committed, tx) == committed

\* a unit of work that is never committed
CommitNothing(committed, tx) == committed

\* session.commit(): the rows of the unit of work become the committed ones
Commit(committed, tx) == tx

(* a loop that executes one UPDATE for a bank_en: a later record of the same  *)
(* bank_en is passed over                                                     *)
RECURSIVE UpdateLoopDistinct(_, _, _, _, _, _)
UpdateLoopDistinct(tx, records, i, updated_count, issued, failAt) ==
    IF i > Len(records)
    THEN [raised |-> FALSE, tx |-> tx, updated_count |-> updated_count, issued |-> issued]
    ELSE IF \/ MissingKey(records[i])
            \/ DOMAIN records[i] \ {"bank_en"} = {}
            \/ \E j \in 1..Len(issued) : records[issued[j]].bank_en = records[i].bank_en
         THEN UpdateLoopDistinct(tx, records, i + 1, updated_count, issued, failAt)
         ELSE IF failAt = i
              THEN [raised |-> TRUE, tx |-> tx, updated_count |-> updated_count,
                    issued |-> Append(issued, i)]
              ELSE UpdateLoopDistinct(
                       UpdateWhere(tx, records[i].bank_en,
                                   Restrict(records[i], DOMAIN records[i] \ {"bank_en"})),
                       records, i + 1, updated_count + RowCount(tx, records[i].bank_en),
                       Append(issued, i), failAt)

(* The "for record in records" loop from record i on.  tx: the rows as the    *)
(* session sees them; failAt: the record whose execute raises                 *)
(* SQLAlchemyError (0: none does); issued: the records an UPDATE was          *)
(* executed for.                                                              *)
RECURSIVE UpdateLoop(_, _, _, _, _, _)
UpdateLoop(tx, records, i, updated_count, issued, failAt) ==
    IF i > Len(records)
    THEN [raised |-> FALSE, tx |-> tx, updated_count |-> updated_count, issued |-> issued]
    ELSE IF MissingKey(records[i]) \/ DOMAIN records[i] \ {"bank_en"} = {}
         THEN UpdateLoop(tx, records, i + 1, updated_count, issued, failAt)
         ELSE IF failAt = i
              THEN [raised |-> TRUE, tx |-> tx, updated_count |-> updated_count,
                    issued |-> Append(issued, i)]
              ELSE UpdateLoop(UpdateWhere(tx, records[i].bank_en,
                                          Restrict(records[i], DOMAIN records[i] \ {"bank_en"})),
                              records, i + 1,
                              updated_count + RowCount(tx, records[i].bank_en),
                              Append(issued, i), failAt)

\* the try block's end: commit and return, or rollback and raise
BulkResult(committed, r, commitFails) ==
    IF r.raised \/ (commitFails /\ r.issued # <<>>)
    THEN [raised |-> TRUE, db |-> Rollback(committed, r.tx), count |-> 0,
          issued |-> r.issued]
    ELSE [raised |-> FALSE, db |-> Commit(committed, r.tx), count |-> r.updated_count,
          issued |-> r.issued]

\* a call that raises when it is given no records
bulk_update_currencyRejectsEmpty(committed, records, failAt) ==
    IF records = <<>>
    THEN [raised |-> TRUE, db |-> committed, count |-> 0, issued |-> <<>>]
    ELSE BulkResult(committed, UpdateLoop(committed, records, 1, 0, <<>>, failAt),
                    failAt = Len(records) + 1)

(* bulk_update_currency(session, records) on the committed rows.  raised:     *)
(* the SQLAlchemyError is re-raised; otherwise count is the value returned.   *)
(* failAt = Len(records) + 1: session.commit() raises, which it can only      *)
(* when the unit of work holds a statement.                                   *)
bulk_update_currency(committed, records, failAt) ==
    BulkResult(committed, UpdateLoop(committed, records, 1, 0, <<>>, failAt),
               failAt = Len(records) + 1)

---------------------------------------------------------------------------
(* dao.py: the read side of CurrencyRateDAO *)

\* min(values), max(values) of a non-empty list of quotes
MinOf(values) == CHOOSE m \in values : \A v \in values : m <= v

MaxOf(values) == CHOOSE m \in values : \A v \in values : v <= m

\* result.scalars().all() of select(cls.model.<field>): the values of one column
Column(rows, field_name) == {rows[i][field_name] : i \in 1..Len(rows)}

\* if values: return min(values), max(values); return 0.0, 0.0
RangeOf(values) == IF values # {} THEN <<MinOf(values), MaxOf(values)>> ELSE <<0, 0>>

get_usd_purchase_range(rows) == RangeOf(Column(rows, "usd_buy"))

get_usd_sale_range(rows) == RangeOf(Column(rows, "usd_sell"))

\* select(cls.model).filter(field >= min_value, field <= max_value), in table order
InRange(rows, field_name, min_value, max_value) ==
    SelectSeq(rows, LAMBDA r : r[field_name] >= min_value /\ r[field_name] <= max_value)

\* result.scalars().first() in the place of result.scalars().all()
FirstOf(records) == IF records = <<>> THEN <<>> ELSE <<records[1]>>

_find_by_rangeFirst(rows, field_name, min_value, max_value) ==
    IF min_value > max_value
    THEN [raised |-> TRUE, rows |-> <<>>]
    ELSE [raised |-> FALSE, rows |-> FirstOf(InRange(rows, field_name, min_value, max_value))]

(* _find_by_range(field_name, min_value, max_value, session): raised is the   *)
(* ValueError of min_value > max_value, rows the schemas of every selected row *)
_find_by_range(rows, field_name, min_value, max_value) ==
    IF min_value > max_value
    THEN [raised |-> TRUE, rows |-> <<>>]
    ELSE [raised |-> FALSE, rows |-> InRange(rows, field_name, min_value, max_value)]

---------------------------------------------------------------------------
(* The site and the table the pipeline runs against *)

GoodAlfa3 == [GoodAlfa EXCEPT !.usd = <<T_3c20, T_3c20>>, !.time = Some("12:40")]

GoodBeta2 == [GoodBeta EXCEPT !.eur = <<T_3c5, T_3c5>>, !.time = Some("12:35")]

\* what page p of the listing holds
PageDoc(p) ==
    CASE p = 1 -> Doc(<<GoodAlfa2, [GoodBeta EXCEPT !.eur = <<T_3c4, T_dash>>]>>)
      [] p = 2 -> Doc(<<GoodBeta2, GoodGamma>>)
      [] p = 3 -> Doc(<<GoodAlfa3>>)
      [] OTHER -> Doc(<<GoodBeta, [GoodAlfa EXCEPT !.time = None]>>)

\* the rows add_data_to_db seeded the table with
SeedDb == parse_currency_table(Doc(<<GoodAlfa, GoodBeta>>))

JobId == "currency_update_job"

\* an add_job that stacks a second job under the same id
AddJobStacks(store, job_id) == Append(store, job_id)

\* scheduler.add_job(..., id=job_id, replace_existing=True) on the job store
AddJob(store, job_id) ==
    IF \E i \in 1..Len(store) : store[i] = job_id THEN store ELSE Append(store, job_id)

NoRegistration == [found |-> <<>>, held |-> <<>>]

\* what add_job found in the scheduler and what the scheduler holds after it
Registration(found, held) == [found |-> found, held |-> held]

NoCycle ==
    [outcome |-> "none", count |-> 0, records |-> <<>>, before |-> <<>>,
     issued |-> <<>>, fetched |-> {}, raisedIn |-> "none"]

NoTasks == [p \in Pages |-> NoTask]

(* results in the order the tasks completed in, as asyncio.as_completed      *)
(* gives them: a page that needed a second GET comes after the others        *)
RECURSIVE ExtendAsCompleted(_, _)
ExtendAsCompleted(results, p) ==
    IF p > LastPage THEN <<>>
    ELSE IF results[p].gets > 1
         THEN ExtendAsCompleted(results, p + 1) \o results[p].out
         ELSE results[p].out \o ExtendAsCompleted(results, p + 1)

\* results = await asyncio.gather(*tasks); for currencies in results: extend
RECURSIVE Extend(_, _)
Extend(results, p) ==
    IF p > LastPage THEN <<>> ELSE results[p].out \o Extend(results, p + 1)

---------------------------------------------------------------------------
(* Records and tables handed to bulk_update_currency on its own *)

FullRecord(key, name, quote) ==
    [bank_en |-> key, bank_name |-> name, link |-> SiteBase \o <<"/", "bank", "/">> \o key,
     usd_buy |-> quote, usd_sell |-> quote + 5, eur_buy |-> quote + 20,
     eur_sell |-> quote + 30, update_time |-> "12:00"]

RecSet ==
    { FullRecord(<<"alfa">>, "Alfa", 310), FullRecord(<<"alfa">>, "Alfa", 315),
      FullRecord(<<"beta">>, "Beta", 320), FullRecord(<<"gamma">>, "Gamma", 330),
      \* an empty bank_en
      FullRecord(<<>>, "Nameless", 340),
      \* BankNameSchema: bank_en and nothing to update
      [bank_en |-> <<"alfa">>],
      \* a model without bank_en
      [bank_name |-> "Delta", usd_buy |-> 350] }

DbSet ==
    { SeedDb,
      <<FullRecord(<<"alfa">>, "Alfa", 300), FullRecord(<<>>, "Nameless", 300)>>,
      <<FullRecord(<<"beta">>, "Beta", 300)>> }

---------------------------------------------------------------------------
(* State *)

PipelineIdle ==
    /\ schedState = "stopped"
    /\ jobs = <<>>
    /\ cycle = "Idle"
    /\ tasks = NoTasks
    /\ all_currencies = <<>>
    /\ lastCycle = NoCycle
    /\ instances = 0
    /\ registered = NoRegistration

NoParseCall == pHtml = NoTableDoc /\ pOut = None

NoReconcileCall == rRecords = <<>> /\ rRuns = <<>>

NoQuery ==
    [query |-> "none", field |-> "", lo |-> 0, hi |-> 0, raised |-> FALSE, rows |-> <<>>]

NoQueryCall == qOut = NoQuery

Init ==
    /\ PipelineIdle
    /\ db = SeedDb
    /\ NoParseCall
    /\ NoReconcileCall
    /\ NoQueryCall

pipelineVars == <<schedState, jobs, cycle, tasks, all_currencies, db, lastCycle, instances,
                  registered>>
callVars == <<pHtml, pOut, rRecords, rRuns, qOut>>

---------------------------------------------------------------------------
(* main.py: lifespan and the interval job *)

\* scheduler.add_job(...); scheduler.start()
Startup ==
    /\ schedState = "stopped"
    /\ jobs' = AddJob(jobs, JobId)
    /\ schedState' = "running"
    /\ registered' = Registration(jobs, AddJob(jobs, JobId))
    /\ UNCHANGED <<cycle, tasks, all_currencies, db, lastCycle, instances, callVars>>

\* scheduler.shutdown(): the job store is emptied, a running instance is cancelled
Shutdown ==
    /\ schedState = "running"
    /\ schedState' = "stopped"
    /\ jobs' = <<>>
    /\ cycle' = "Idle"
    /\ tasks' = NoTasks
    /\ all_currencies' = <<>>
    /\ instances' = 0
    /\ UNCHANGED <<db, lastCycle, registered, callVars>>

(* lifespan is entered while the scheduler already runs: add_job replaces    *)
(* the job in the job store, scheduler.start() raises                        *)
(* SchedulerAlreadyRunningError, the except clause logs it and the finally   *)
(* clause shuts the scheduler down.                                          *)
StartupAgain ==
    /\ schedState = "running"
    /\ registered' = Registration(jobs, AddJob(jobs, JobId))
    /\ schedState' = "stopped"
    /\ jobs' = <<>>
    /\ cycle' = "Idle"
    /\ tasks' = NoTasks
    /\ all_currencies' = <<>>
    /\ instances' = 0
    /\ UNCHANGED <<db, lastCycle, callVars>>

JobDue == schedState = "running" /\ \E i \in 1..Len(jobs) : jobs[i] = JobId

(* add_job is called without max_instances: the scheduler's default holds,   *)
(* one running instance per job.                                             *)
MaxInstances == 1

\* an executor that never refuses to start an instance
MaxInstancesNever(running, max_instances) == FALSE

\* the executor's check when the scheduler submits a due job
MaxInstancesReached(running, max_instances) == running >= max_instances

(* The interval trigger fires and the executor takes the job:                *)
(* upd_data_to_db starts, fetch_all_currencies creates the four page tasks.  *)
TickStart ==
    /\ JobDue
    /\ ~MaxInstancesReached(instances, MaxInstances)
    /\ instances' = instances + 1
    /\ cycle' = "Collecting"
    /\ tasks' = [p \in Pages |-> NewTask(DefaultRetries)]
    /\ lastCycle' = NoCycle
    /\ UNCHANGED <<schedState, jobs, all_currencies, db, registered, callVars>>

(* The interval trigger fires while the instance still runs: the run is      *)
(* skipped (max_instances is 1), the running instance goes on.               *)
TickSkip ==
    /\ JobDue
    /\ MaxInstancesReached(instances, MaxInstances)
    /\ UNCHANGED vars

\* the pages the site may serve with markup the parser refuses
RejectedPages == {2}

\* what the GET of page p may do
GetOutcomes(p) ==
    (IF p \in RejectedPages THEN {[kind |-> "ok", html |-> RejectedDoc]} ELSE {})
    \cup
    { [kind |-> "ok", html |-> PageDoc(p)], [kind |-> "client_error"],
      [kind |-> "timeout"], [kind |-> "unexpected"] }

\* the task of page p runs one pass of fetch_html
FetchAttempt(p) ==
    /\ cycle = "Collecting"
    /\ tasks[p].pc = "get"
    /\ \E o \in GetOutcomes(p) : tasks' = [tasks EXCEPT ![p] = fetch_html_pass(tasks[p], o)]
    /\ UNCHANGED <<schedState, jobs, cycle, all_currencies, db, lastCycle, instances, registered, callVars>>

\* await asyncio.sleep(2 ** attempt) of the task of page p is over
Wake(p) ==
    /\ cycle = "Collecting"
    /\ tasks[p].pc = "sleep"
    /\ tasks' = [tasks EXCEPT ![p].pc = "get"]
    /\ UNCHANGED <<schedState, jobs, cycle, all_currencies, db, lastCycle, instances, registered, callVars>>

\* a wait that ends with the first task that returns
GatherReadyFirst(results) == \E p \in Pages : results[p].pc = "done"

\* await asyncio.gather(*tasks) returns once every task has returned
GatherReady(results) == \A p \in Pages : results[p].pc = "done"

\* asyncio.gather returns: fetch_all_currencies returns all_currencies
Gather ==
    /\ cycle = "Collecting"
    /\ GatherReady(tasks)
    /\ all_currencies' = Extend(tasks, 1)
    /\ cycle' = "Gathered"
    /\ UNCHANGED <<schedState, jobs, tasks, db, lastCycle, instances, registered, callVars>>

\* what the job's run leaves in the log, r being bulk_update_currency's result
CycleLog(r, records, before, results) ==
    [outcome |-> IF r.raised THEN "error" ELSE "ok", count |-> r.count,
     records |-> records, before |-> before, issued |-> r.issued,
     fetched |-> {p \in Pages : results[p].status = "ok"},
     raisedIn |-> IF r.raised THEN "reconcile" ELSE "none"]

\* what the job's run leaves in the log when fetch_all_currencies raised
CollectErrorLog(before, results) ==
    [outcome |-> "error", count |-> 0, records |-> <<>>, before |-> before,
     issued |-> <<>>, fetched |-> {p \in Pages : results[p].status = "ok"},
     raisedIn |-> "collect"]

\* a run that raised takes its job out of the store
AfterRunDropsFailed(store, raised) == IF raised THEN <<>> ELSE store

\* the job store after a run of the interval job, whether or not it raised
AfterRun(store, raised) == store

ReconcileWith(r) ==
    /\ db' = r.db
    /\ lastCycle' = CycleLog(r, all_currencies, db, tasks)
    /\ jobs' = AfterRun(jobs, r.raised)

(* upd_data_to_db: bulk_update_currency(records=rez), then the job ends; an   *)
(* exception is logged by the scheduler's executor.                           *)
Reconcile ==
    /\ cycle = "Gathered"
    /\ \E failAt \in 0..(Len(all_currencies) + 1) :
          ReconcileWith(bulk_update_currency(db, all_currencies, failAt))
    /\ cycle' = "Idle"
    /\ tasks' = NoTasks
    /\ all_currencies' = <<>>
    /\ instances' = instances - 1
    /\ UNCHANGED <<schedState, registered, callVars>>

(* A page task raised: asyncio.gather, called without return_exceptions,      *)
(* raises its exception in fetch_all_currencies without waiting for the       *)
(* other tasks; nothing catches it there or in upd_data_to_db, so the job's   *)
(* run ends with the exception before bulk_update_currency is called.  The    *)
(* other tasks are not cancelled; what they return is never read.             *)
GatherRaise ==
    /\ cycle = "Collecting"
    /\ \E p \in Pages : tasks[p].pc = "raised"
    /\ lastCycle' = CollectErrorLog(db, tasks)
    /\ jobs' = AfterRun(jobs, TRUE)
    /\ cycle' = "Idle"
    /\ tasks' = NoTasks
    /\ all_currencies' = <<>>
    /\ instances' = instances - 1
    /\ UNCHANGED <<schedState, db, registered, callVars>>

Next ==
    \/ Startup
    \/ StartupAgain
    \/ Shutdown
    \/ TickStart
    \/ TickSkip
    \/ \E p \in Pages : FetchAttempt(p)
    \/ \E p \in Pages : Wake(p)
    \/ GatherRaise
    \/ Gather
    \/ Reconcile

Spec == Init /\ [][Next]_vars

---------------------------------------------------------------------------
(* fetch_html on its own: one page task, any retries value *)

InitFetch ==
    /\ schedState = "stopped"
    /\ jobs = <<>>
    /\ cycle = "Collecting"
    /\ \E p \in Pages, r \in 0..MaxRetries : tasks = [NoTasks EXCEPT ![p] = NewTask(r)]
    /\ all_currencies = <<>>
    /\ lastCycle = NoCycle
    /\ instances = 1
    /\ registered = NoRegistration
    /\ db = SeedDb
    /\ NoParseCall
    /\ NoReconcileCall
    /\ NoQueryCall

NextFetch ==
    \/ \E p \in Pages : FetchAttempt(p)
    \/ \E p \in Pages : Wake(p)

SpecFetch == InitFetch /\ [][NextFetch]_vars

(* The event loop runs a coroutine that is ready and ends every sleep: the    *)
(* one task of the call is never left waiting for ever.                       *)
SpecFetchLive == SpecFetch /\ WF_vars(NextFetch)

---------------------------------------------------------------------------
(* parse_currency_table on its own: any document *)

InitParse ==
    /\ PipelineIdle
    /\ db = SeedDb
    /\ pHtml \in ParseInputs
    /\ pOut = None
    /\ NoReconcileCall
    /\ NoQueryCall

\* the call raised: there is no result
Raised == [isNone |-> TRUE, raised |-> TRUE]

ParseCall ==
    /\ pOut = None
    /\ pOut' = IF ParseRaises(pHtml) THEN Raised ELSE Some(parse_currency_table(pHtml))
    /\ UNCHANGED <<pipelineVars, pHtml, rRecords, rRuns, qOut>>

SpecParse == InitParse /\ [][ParseCall]_vars

---------------------------------------------------------------------------
(* bulk_update_currency on its own: any table, any records, called again    *)
(* with the same records                                                    *)

InitReconcile ==
    /\ PipelineIdle
    /\ db \in DbSet
    /\ NoParseCall
    /\ rRecords \in SeqsUpTo(RecSet, MaxRecs)
    /\ rRuns = <<>>
    /\ NoQueryCall

RunLog(r, before, failAt) ==
    [raised |-> r.raised, count |-> r.count, issued |-> r.issued,
     before |-> before, after |-> r.db, failAt |-> failAt]

ReconcileCallWith(r, failAt) ==
    /\ db' = r.db
    /\ rRuns' = Append(rRuns, RunLog(r, db, failAt))

ReconcileCall ==
    /\ Len(rRuns) < MaxRuns
    /\ \E failAt \in 0..(Len(rRecords) + 1) :
          ReconcileCallWith(bulk_update_currency(db, rRecords, failAt), failAt)
    /\ UNCHANGED <<schedState, jobs, cycle, tasks, all_currencies, lastCycle, instances, registered,
                   pHtml, pOut, rRecords, qOut>>

SpecReconcile == InitReconcile /\ [][ReconcileCall]_vars

---------------------------------------------------------------------------
(* The read queries on their own: any table of banks, any bounds *)

QueryKeys == {<<"alfa">>, <<"beta">>, <<"gamma">>, <<"delta">>}

QueryQuotes == {305, 310}

QueryBounds == {0, 305, 310, 315}

QueryFields == {"usd_buy", "usd_sell"}

\* tables of at most n banks, bank_en unique as models.py declares it
TablesUpTo(n) ==
    UNION { { [i \in 1..k |-> FullRecord(keys[i], "Bank", quotes[i])] :
                  keys \in {f \in [1..k -> QueryKeys] : \A i, j \in 1..k : f[i] = f[j] => i = j},
                  quotes \in [1..k -> QueryQuotes] } : k \in 0..n }

InitQuery ==
    /\ PipelineIdle
    /\ db \in TablesUpTo(MaxBanks)
    /\ NoParseCall
    /\ NoReconcileCall
    /\ NoQueryCall

RangeLog(name, field_name, range) ==
    [query |-> name, field |-> field_name, lo |-> range[1], hi |-> range[2],
     raised |-> FALSE, rows |-> <<>>]

GetUsdPurchaseRange ==
    /\ qOut' = RangeLog("range", "usd_buy", get_usd_purchase_range(db))
    /\ UNCHANGED <<pipelineVars, pHtml, pOut, rRecords, rRuns>>

GetUsdSaleRange ==
    /\ qOut' = RangeLog("range", "usd_sell", get_usd_sale_range(db))
    /\ UNCHANGED <<pipelineVars, pHtml, pOut, rRecords, rRuns>>

FindLog(field_name, min_value, max_value, r) ==
    [query |-> "find", field |-> field_name, lo |-> min_value, hi |-> max_value,
     raised |-> r.raised, rows |-> r.rows]

FindByRange ==
    /\ \E field_name \in QueryFields, min_value \in QueryBounds, max_value \in QueryBounds :
          qOut' = FindLog(field_name, min_value, max_value,
                          _find_by_range(db, field_name, min_value, max_value))
    /\ UNCHANGED <<pipelineVars, pHtml, pOut, rRecords, rRuns>>

NextQuery ==
    \/ GetUsdPurchaseRange
    \/ GetUsdSaleRange
    \/ FindByRange

SpecQuery == InitQuery /\ [][NextQuery]_vars

---------------------------------------------------------------------------
(* Claims *)

\* a fetch_html call that ended with every GET failing transiently
AllTransient(t) == t.pc = "done" /\ t.status \notin {"ok", "unexpected"}

(* C1, as the code has it: with retries = 3 and every attempt failing with a  *)
(* transient error, fetch_html makes 3 GET attempts in total, sleeps 2 and 4  *)
(* time units between the 1st-2nd and 2nd-3rd attempts, does not sleep after  *)
(* the 3rd and returns None.                                                  *)
C1_ThreeAttemptsTwoSleeps ==
    \A p \in Pages :
        AllTransient(tasks[p]) /\ tasks[p].retries = DefaultRetries
        => /\ tasks[p].gets = 3
           /\ tasks[p].sleeps = <<2, 4>>
           /\ tasks[p].html = None
           /\ tasks[p].status = "exhausted"

(* C1 as stated: 4 GET attempts and sleeps of 2, 4 and 8.                     *)
C1_FourAttemptsThreeSleeps ==
    \A p \in Pages :
        AllTransient(tasks[p]) /\ tasks[p].retries = DefaultRetries
        => tasks[p].gets = 4 /\ tasks[p].sleeps = <<2, 4, 8>>

C1_Witness ==
    \E p \in Pages :
        /\ AllTransient(tasks[p])
        /\ tasks[p].retries = DefaultRetries
        /\ tasks[p].gets = 3

\* the store raised in this call: on the UPDATE of record failAt, or on the commit
StoreRaised(run) ==
    \/ \E k \in 1..Len(run.issued) : run.issued[k] = run.failAt
    \/ run.failAt = Len(rRecords) + 1 /\ run.issued # <<>>

(* C2: when the store raises inside bulk_update_currency, on an UPDATE or on  *)
(* the commit, the call raises and the committed rows are exactly those of    *)
(* before the call, also the rows whose UPDATE had been executed.             *)
C2_RollbackRestoresRows ==
    \A n \in 1..Len(rRuns) :
        StoreRaised(rRuns[n])
        => /\ rRuns[n].raised
           /\ rRuns[n].after = rRuns[n].before
           /\ (n = Len(rRuns) => db = rRuns[n].before)

\* the 1st UPDATE changed a row, a later one raised
C2_Witness ==
    /\ Len(rRuns) >= 1
    /\ rRuns[1].raised
    /\ Len(rRuns[1].issued) >= 2
    /\ UpdateWhere(rRuns[1].before, rRecords[rRuns[1].issued[1]].bank_en,
                   Restrict(rRecords[rRuns[1].issued[1]],
                            DOMAIN rRecords[rRuns[1].issued[1]] \ {"bank_en"}))
       # rRuns[1].before

---------------------------------------------------------------------------

KeysOf(rows) == [i \in 1..Len(rows) |-> rows[i].bank_en]

KnownKey(rows, rec) == \E i \in 1..Len(rows) : rows[i].bank_en = rec.bank_en

\* the records whose bank_en some row has
WithoutUnknown(records, rows) == SelectSeq(records, LAMBDA rec : KnownKey(rows, rec))

SameOutcome(c, r) == ~r.raised /\ r.count = c.count /\ r.db = db

(* C3: the periodic update never inserts or deletes rows: in every state the  *)
(* bank_en keys of the table are those of the seeded table, row by row, and a *)
(* cycle that committed leaves the rows and returns the count it would have   *)
(* with the records of unknown bank_en left out (such a record counts 0 and   *)
(* creates no row).                                                           *)
C3_NoInsertNoDelete ==
    /\ KeysOf(db) = KeysOf(SeedDb)
    /\ lastCycle.outcome = "ok"
       => SameOutcome(lastCycle,
                      bulk_update_currency(lastCycle.before,
                                           WithoutUnknown(lastCycle.records, lastCycle.before),
                                           0))

\* a committed cycle with a record of unknown bank_en that updated other rows
C3_Witness ==
    /\ lastCycle.outcome = "ok"
    /\ \E k \in 1..Len(lastCycle.records) : ~KnownKey(lastCycle.before, lastCycle.records[k])
    /\ lastCycle.count >= 1
    /\ db # lastCycle.before

(* C4: bulk_update_currency run twice in a row with the same records, both    *)
(* runs committing: the rows after the second run are those after the first,  *)
(* and both runs return the same count.                                       *)
C4_SecondRunSame ==
    Len(rRuns) = 2 /\ ~rRuns[1].raised /\ ~rRuns[2].raised
    => /\ rRuns[2].after = rRuns[1].after
       /\ rRuns[2].count = rRuns[1].count
       /\ db = rRuns[1].after

\* two committed runs, the first of which changed rows through two UPDATEs
C4_Witness ==
    /\ Len(rRuns) = 2
    /\ ~rRuns[1].raised /\ ~rRuns[2].raised
    /\ rRuns[1].after # rRuns[1].before
    /\ rRuns[1].count >= 1
    /\ Len(rRuns[1].issued) >= 2

\* the numeric extraction of the row is reached and raises
NumericFailure(row) == ~row.name.isNone /\ ~RowQuotes(row).ok

\* the row alone gives a record
WellFormed(row) == RowStep(row).kind = "append"

Kept(rows) == SelectSeq(rows, LAMBDA row : ~NumericFailure(row))

RecordsOf(rows) == [k \in 1..Len(rows) |-> RowStep(rows[k]).rec]

IsolatedRows(out, rows, kept) ==
    /\ out = parse_currency_table(Doc(kept))
    /\ (\A k \in 1..Len(kept) : WellFormed(kept[k])) => out = RecordsOf(kept)

(* C5: a row whose numeric extraction fails is skipped and nothing else:      *)
(* parse_currency_table returns what it returns for the table without such    *)
(* rows, and when every other row is well-formed, one record for each of      *)
(* them, in the order of the rows.                                            *)
C5_RowIsolation ==
    ~pOut.isNone /\ pHtml.hasTable /\ pHtml.hasTbody
    => IsolatedRows(pOut.v, pHtml.rows, Kept(pHtml.rows))

\* three rows, the 2nd with a failing quote, the 1st and the 3rd well-formed
C5_Witness ==
    /\ ~pOut.isNone
    /\ Len(pHtml.rows) = 3
    /\ WellFormed(pHtml.rows[1])
    /\ NumericFailure(pHtml.rows[2])
    /\ WellFormed(pHtml.rows[3])
    /\ Len(pOut.v) = 2

\* what page p gives the aggregate once its task t has returned
PageRecords(p, t) == IF t.status = "ok" THEN parse_currency_table(PageDoc(p)) ELSE <<>>

RECURSIVE Collected(_, _)
Collected(results, p) ==
    IF p > LastPage THEN <<>> ELSE PageRecords(p, results[p]) \o Collected(results, p + 1)

(* C6: fetch_all_currencies never fails because of a page: no cycle ends     *)
(* with an exception raised while collecting; it returns only when the tasks  *)
(* of all four pages have ended, it does return then, and its result is the   *)
(* records of the pages that were fetched and parsed; a page whose fetch or   *)
(* parse failed contributes no record.                                        *)
C6_PageFailureIsolated ==
    /\ lastCycle.raisedIn # "collect"
    /\ cycle = "Collecting" /\ (\A p \in Pages : tasks[p].pc \in {"done", "raised"})
       => ENABLED Gather
    /\ cycle = "Gathered"
       => /\ \A p \in Pages : tasks[p].pc = "done"
          /\ \A p \in Pages : tasks[p].status # "ok" => tasks[p].out = <<>>
          /\ all_currencies = Collected(tasks, 1)

(* C7: after a cycle that raised, the scheduler is idle with no run of the    *)
(* job in progress, and while the scheduler runs the job is still in the job  *)
(* store and the next tick starts a new cycle.                                *)
C7_FailedCycleKeepsJob ==
    lastCycle.outcome = "error"
    => /\ cycle = "Idle"
       /\ tasks = NoTasks
       /\ schedState = "running" => JobDue /\ ENABLED TickStart

\* a cycle raised after an UPDATE had been executed, the scheduler still runs
C7_Witness ==
    /\ lastCycle.outcome = "error"
    /\ lastCycle.issued # <<>>
    /\ schedState = "running"

\* the last cycle has ended and none of its pages was fetched
AllPagesFailed(c) == c.outcome # "none" /\ c.fetched = {}

(* C8: a cycle whose four page fetches all failed calls                       *)
(* bulk_update_currency with no records, which executes no UPDATE, returns 0  *)
(* and leaves the rows as they were; the cycle ends without an error and,     *)
(* while the scheduler runs, the next tick starts a new cycle.                *)
C8_AllPagesFailed ==
    AllPagesFailed(lastCycle)
    => /\ lastCycle.records = <<>>
       /\ lastCycle.issued = <<>>
       /\ lastCycle.outcome = "ok"
       /\ lastCycle.count = 0
       /\ db = lastCycle.before
       /\ cycle = "Idle"
       /\ schedState = "running" => JobDue /\ ENABLED TickStart

C8_Witness ==
    /\ AllPagesFailed(lastCycle)
    /\ schedState = "running"
    /\ lastCycle.outcome = "ok"

HasKey(rec) == "bank_en" \in DOMAIN rec

HasEmptyKey(rec) == HasKey(rec) /\ rec.bank_en = <<>>

Updatable(rec) == HasKey(rec) /\ DOMAIN rec \ {"bank_en"} # {}

IsIssued(run, k) == \E j \in 1..Len(run.issued) : run.issued[j] = k

\* the indices of the records an UPDATE is due for, in the order of the records
RECURSIVE DueFrom(_, _)
DueFrom(records, k) ==
    IF k > Len(records) THEN <<>>
    ELSE (IF Updatable(records[k]) THEN <<k>> ELSE <<>>) \o DueFrom(records, k + 1)

SameAsRun(run, r) == ~r.raised /\ r.db = run.after /\ r.count = run.count

(* C9, as the code has it: bulk_update_currency skips a record that has no    *)
(* bank_en field: no UPDATE is executed for it, it adds nothing to the count, *)
(* and the other records are still processed and committed.  A record whose   *)
(* bank_en is the empty string is not skipped: its UPDATE is executed like    *)
(* any other record's.                                                        *)
C9_MissingKeySkipped ==
    \A n \in 1..Len(rRuns) :
        /\ \A k \in 1..Len(rRecords) : ~HasKey(rRecords[k]) => ~IsIssued(rRuns[n], k)
        /\ ~rRuns[n].raised
           => /\ rRuns[n].issued = DueFrom(rRecords, 1)
              /\ SameAsRun(rRuns[n],
                           bulk_update_currency(rRuns[n].before, SelectSeq(rRecords, HasKey), 0))

(* C9 as stated: no UPDATE is executed for a record whose bank_en is empty.   *)
C9_EmptyKeySkipped ==
    \A n \in 1..Len(rRuns) :
        \A k \in 1..Len(rRecords) : HasEmptyKey(rRecords[k]) => ~IsIssued(rRuns[n], k)

(* a committed run over a record without bank_en, a record with an empty      *)
(* bank_en and a third record, which changed rows                             *)
C9_Witness ==
    /\ Len(rRuns) >= 1
    /\ ~rRuns[1].raised
    /\ Len(rRecords) = 3
    /\ ~HasKey(rRecords[1])
    /\ HasEmptyKey(rRecords[2])
    /\ rRuns[1].issued = <<2, 3>>
    /\ rRuns[1].count >= 1
    /\ rRuns[1].after # rRuns[1].before

QuoteFields == {"usd_buy", "usd_sell", "eur_buy", "eur_sell"}

HasQuotes(rec) == QuoteFields \subseteq DOMAIN rec /\ \A f \in QuoteFields : rec[f] \in Int

\* the row has its two USD and its two EUR cells
HasQuoteCells(row) == Len(row.usd) >= 2 /\ Len(row.eur) >= 2

HasHref(row) == ~row.a.isNone /\ ~row.a.v.href.isNone

\* rec is the record of this row: its name, its four quotes, the 3rd part of its href
FromRow(rec, row) ==
    /\ ~row.name.isNone /\ rec.bank_name = row.name.v
    /\ HasQuoteCells(row)
    /\ RowQuotes(row).ok
    /\ rec.usd_buy = QuoteOf(row.usd, 1).val /\ rec.usd_sell = QuoteOf(row.usd, 2).val
    /\ rec.eur_buy = QuoteOf(row.eur, 1).val /\ rec.eur_sell = QuoteOf(row.eur, 2).val
    /\ HasHref(row)
    /\ Len(Split(row.a.v.href.v, "/")) >= 3
    /\ rec.bank_en = Split(row.a.v.href.v, "/")[3]

(* C10, as the code has it: every record parse_currency_table returns has     *)
(* all four quotes, read from the four quote cells of a row of the table, and *)
(* a bank_en that is the third '/'-separated part of the row's href, which    *)
(* may be the empty string; a row missing a quote never appears.              *)
C10_RecordHasQuotes ==
    ~pOut.isNone
    => \A k \in 1..Len(pOut.v) :
           /\ HasQuotes(pOut.v[k])
           /\ \E j \in 1..Len(pHtml.rows) : FromRow(pOut.v[k], pHtml.rows[j])

(* C10 as stated: every record has its four quotes and a non-empty bank_en.   *)
C10_NonEmptyBankEn ==
    ~pOut.isNone
    => \A k \in 1..Len(pOut.v) : HasQuotes(pOut.v[k]) /\ pOut.v[k].bank_en # <<>>

\* a record with an empty bank_en returned, a row without its quote cells left out
C10_Witness ==
    /\ ~pOut.isNone
    /\ Len(pHtml.rows) = 3
    /\ Len(pOut.v) = 2
    /\ \E k \in 1..Len(pOut.v) : pOut.v[k].bank_en = <<>>
    /\ \E j \in 1..Len(pHtml.rows) : ~HasQuoteCells(pHtml.rows[j])

SignOf(n) == IF n > 0 THEN 1 ELSE IF n < 0 THEN 0 - 1 ELSE 0

\* the sign the text of a quote cell shows: a leading '-', a digit other than 0
TextSign(text) ==
    IF \A i \in 1..Len(text) : text[i] \in {"0", ".", ",", " ", "-", "+"}
    THEN 0
    ELSE IF \E i \in 1..Len(text) : text[i] = "-" /\ \A j \in 1..(i - 1) : text[j] = " "
         THEN 0 - 1
         ELSE 1

SignsFromRow(rec, row) ==
    /\ FromRow(rec, row)
    /\ SignOf(rec.usd_buy) = TextSign(row.usd[1])
    /\ SignOf(rec.usd_sell) = TextSign(row.usd[2])
    /\ SignOf(rec.eur_buy) = TextSign(row.eur[1])
    /\ SignOf(rec.eur_sell) = TextSign(row.eur[2])

(* C11, as the code has it: every quote of every record that leaves the      *)
(* parser is the number its cell text denotes, with the sign of the text:    *)
(* positive for a positive text, zero for a text of zeros, negative for a    *)
(* text with a minus sign.  Neither the parser nor the schema checks that a  *)
(* quote is positive.                                                         *)
C11_QuotesKeepSign ==
    ~pOut.isNone
    => \A k \in 1..Len(pOut.v) :
           \E j \in 1..Len(pHtml.rows) : SignsFromRow(pOut.v[k], pHtml.rows[j])

(* C11 as stated: every quote of every returned record is positive.           *)
C11_QuotesPositive ==
    ~pOut.isNone
    => \A k \in 1..Len(pOut.v) : \A f \in QuoteFields : pOut.v[k][f] > 0

\* a record with a negative quote and a record with a zero quote are returned
C11_Witness ==
    /\ ~pOut.isNone
    /\ \E k \in 1..Len(pOut.v) : pOut.v[k].usd_buy < 0
    /\ \E k \in 1..Len(pOut.v) : pOut.v[k].eur_buy = 0
    /\ \E k \in 1..Len(pOut.v) : \A f \in QuoteFields : pOut.v[k][f] > 0

\* the call has returned None and its task gives no records
ReturnedFailure(t) == t.pc = "done" /\ t.html = None /\ t.out = <<>>

(* C12: a GET that raises an unexpected error ends fetch_html at once with    *)
(* None, whatever the number of failed attempts before it: that GET is the    *)
(* last one, no sleep follows it, and the task takes no further step.         *)
C12_UnexpectedEndsFetch ==
    \A p \in Pages :
        tasks[p].status = "unexpected"
        => /\ ReturnedFailure(tasks[p])
           /\ tasks[p].gets = tasks[p].attempt + 1
           /\ Len(tasks[p].sleeps) = tasks[p].attempt
           /\ ~ENABLED FetchAttempt(p)
           /\ ~ENABLED Wake(p)

\* the unexpected error came on the 2nd attempt of a call with attempts left
C12_Witness ==
    \E p \in Pages :
        /\ tasks[p].status = "unexpected"
        /\ tasks[p].attempt = 1
        /\ tasks[p].gets = 2
        /\ tasks[p].retries = DefaultRetries

(* C13: the waits of a fetch_html call double: the first wait is 2, every     *)
(* later wait is twice the one before, and a call that waits has as many      *)
(* failed attempts (GETs) behind it as it has waited, so the wait after the   *)
(* k-th failed attempt is 2^k.                                                *)
C13_WaitsDouble ==
    \A p \in Pages :
        /\ \A k \in 1..Len(tasks[p].sleeps) :
               tasks[p].sleeps[k] = IF k = 1 THEN 2 ELSE 2 * tasks[p].sleeps[k - 1]
        /\ tasks[p].pc = "sleep"
           => Len(tasks[p].sleeps) = tasks[p].attempt /\ tasks[p].gets = tasks[p].attempt

\* a call waiting for the 3rd time
C13_Witness ==
    \E p \in Pages : tasks[p].pc = "sleep" /\ tasks[p].sleeps = <<2, 4, 8>>

(* C14: parse_currency_table never raises: every call returns a sequence of  *)
(* records, the empty one when the page has no table.content_table or the    *)
(* table has no tbody.                                                        *)
C14_ParseNeverRaises ==
    /\ pOut # Raised
    /\ ~pOut.isNone /\ (~pHtml.hasTable \/ ~pHtml.hasTbody) => pOut.v = <<>>

(* C15: at most one cycle runs at any moment: the executor's count of        *)
(* running instances is 0 when the scheduler is idle and 1 while a cycle     *)
(* runs; a tick that arrives while a cycle runs is skipped: it starts no new  *)
(* cycle and leaves the running one, its page tasks and its records as they   *)
(* are.                                                                       *)
C15_NoOverlappingCycles ==
    /\ instances = IF cycle = "Idle" THEN 0 ELSE 1
    /\ cycle # "Idle" /\ JobDue
       => /\ ~ENABLED TickStart
          /\ ENABLED TickSkip
          /\ ~ENABLED (TickSkip /\ <<cycle, tasks, all_currencies, instances>>'
                                   # <<cycle, tasks, all_currencies, instances>>)

\* a tick is due while the cycle waits for a page task that sleeps
C15_Witness ==
    /\ JobDue
    /\ cycle = "Collecting"
    /\ \E p \in Pages : tasks[p].pc = "sleep"
    /\ \E p \in Pages : tasks[p].pc = "done"
    /\ ENABLED TickSkip

(* C16: however often lifespan registers the job, the scheduler holds        *)
(* exactly one job, 'currency_update_job', right after every add_job and      *)
(* whenever it runs; a registration that finds the job in the job store       *)
(* replaces it and adds no second one.                                        *)
C16_SingleNamedJob ==
    /\ registered # NoRegistration => registered.held = <<"currency_update_job">>
    /\ schedState = "running" => jobs = <<"currency_update_job">> /\ registered.held = jobs
    /\ Len(jobs) <= 1

\* the job was registered again while the scheduler held it
C16_Witness ==
    /\ registered.found = <<"currency_update_job">>
    /\ registered.held = <<"currency_update_job">>

\* the orderings of the records
Orderings(records) ==
    {[i \in 1..Len(records) |-> records[f[i]]] : f \in Permutations(1..Len(records))}

\* no two different records that an UPDATE is due for have the same bank_en
KeysUnique(records) ==
    \A i, j \in 1..Len(records) :
        Updatable(records[i]) /\ Updatable(records[j]) /\ records[i].bank_en = records[j].bank_en
        => records[i] = records[j]

\* every ordering of the records, run on the rows of before, commits the rows and count of run
SameForOrderings(run, records) ==
    \A o \in Orderings(records) : SameAsRun(run, bulk_update_currency(run.before, o, 0))

(* C17, as the code has it: when no two different records of the set share   *)
(* a bank_en, the rows bulk_update_currency commits and the count it returns  *)
(* are the same for every ordering of the records.  (With two different       *)
(* records of one bank_en the UPDATEs are executed in the order of the        *)
(* records and the later one stays.)                                          *)
C17_OrderIndependentUniqueKeys ==
    \A n \in 1..Len(rRuns) :
        ~rRuns[n].raised /\ KeysUnique(rRecords) => SameForOrderings(rRuns[n], rRecords)

(* C17 as stated: for every record set the committed rows are the same for    *)
(* every ordering of the records.                                             *)
C17_OrderIndependent ==
    \A n \in 1..Len(rRuns) :
        ~rRuns[n].raised
        => \A o \in Orderings(rRecords) :
               bulk_update_currency(rRuns[n].before, o, 0).db = rRuns[n].after

\* three records of three banks, two of which have a row, were committed
C17_Witness ==
    /\ Len(rRuns) >= 1
    /\ ~rRuns[1].raised
    /\ KeysUnique(rRecords)
    /\ rRuns[1].issued = <<1, 2, 3>>
    /\ rRuns[1].count = 2
    /\ \A i, j \in 1..3 : i # j => rRecords[i].bank_en # rRecords[j].bank_en

\* the row has the values of the record in every field but bank_en
RowHasRecord(row, rec) ==
    /\ rec.bank_en = row.bank_en
    /\ \A f \in DOMAIN row \ {"bank_en"} : f \in DOMAIN rec /\ row[f] = rec[f]

(* C18: after a cycle that committed, a row whose bank_en no record of the    *)
(* cycle has is as it was before the cycle, in every field, and a row whose   *)
(* bank_en some record has holds the values of a record with that bank_en.    *)
C18_StaleRowsUntouched ==
    lastCycle.outcome = "ok"
    => /\ Len(db) = Len(lastCycle.before)
       /\ \A i \in 1..Len(db) :
              IF KnownKey(lastCycle.records, db[i])
              THEN \E k \in 1..Len(lastCycle.records) : RowHasRecord(db[i], lastCycle.records[k])
              ELSE db[i] = lastCycle.before[i]

\* the cycle brought new values for one bank and no record for another
C18_Witness ==
    /\ lastCycle.outcome = "ok"
    /\ \E i \in 1..Len(db) :
           ~KnownKey(lastCycle.records, db[i]) /\ db[i] = lastCycle.before[i]
    /\ \E i \in 1..Len(db) :
           KnownKey(lastCycle.records, db[i]) /\ db[i] # lastCycle.before[i]
    /\ lastCycle.before # SeedDb

\* this step is the cycle calling bulk_update_currency
ReconcileStep ==
    \/ db' # db
    \/ lastCycle' # lastCycle /\ lastCycle'.outcome # "none" /\ lastCycle'.raisedIn # "collect"

(* C19: bulk_update_currency is called, and a row is changed, only in a       *)
(* cycle whose four page tasks have all returned and whose                    *)
(* fetch_all_currencies has returned, and the records it is given are the     *)
(* aggregate fetch_all_currencies returned: the records of the pages, page    *)
(* by page.                                                                   *)
C19_ReconcileAfterCollect ==
    [][ReconcileStep
       => /\ cycle = "Gathered"
          /\ \A p \in Pages : tasks[p].pc = "done"
          /\ lastCycle'.records = all_currencies
          /\ all_currencies = Collected(tasks, 1)]_vars

\* a cycle has updated rows with the records of three pages
C19_Witness ==
    /\ lastCycle.outcome = "ok"
    /\ Cardinality(lastCycle.fetched) = 3
    /\ Len(lastCycle.records) >= 3
    /\ db # lastCycle.before

\* the rows of the table whose bank_en is that of the record
MatchingRows(rows, rec) == {i \in 1..Len(rows) : rows[i].bank_en = rec.bank_en}

\* the matching rows of the records issued[j..], added up
RECURSIVE SumOfMatches(_, _, _, _)
SumOfMatches(rows, records, issued, j) ==
    IF j > Len(issued) THEN 0
    ELSE Cardinality(MatchingRows(rows, records[issued[j]]))
         + SumOfMatches(rows, records, issued, j + 1)

(* C20: the value a committed bulk_update_currency returns is the sum, over   *)
(* the records an UPDATE was executed for, of the number of rows that had     *)
(* the record's bank_en: 0 for a record that matches no row.                  *)
C20_CountIsSumOfMatches ==
    \A n \in 1..Len(rRuns) :
        ~rRuns[n].raised
        => rRuns[n].count = SumOfMatches(rRuns[n].before, rRecords, rRuns[n].issued, 1)

\* three UPDATEs: two for the same row, one that matches no row
C20_Witness ==
    /\ Len(rRuns) >= 1
    /\ ~rRuns[1].raised
    /\ rRuns[1].issued = <<1, 2, 3>>
    /\ rRuns[1].count = 2
    /\ rRecords[1].bank_en = rRecords[2].bank_en
    /\ MatchingRows(rRuns[1].before, rRecords[3]) = {}

\* the href is a path: it starts with '/'
IsPath(href) == href # <<>> /\ href[1] = "/"

\* the segments of a path: what stands between its '/'
PathSegments(href) == Tail(Split(href, "/"))

\* the record's key and link are those of the row's detail link
KeyOfLink(rec, row) ==
    IsPath(row.a.v.href.v)
    => /\ Len(PathSegments(row.a.v.href.v)) >= 2
       /\ rec.bank_en = PathSegments(row.a.v.href.v)[2]
       /\ rec.link = <<"https://ru.myfin.by">> \o row.a.v.href.v

KeysOfLinks(out, kept) ==
    /\ Len(out) = Len(kept)
    /\ \A k \in 1..Len(out) : HasHref(kept[k]) /\ KeyOfLink(out[k], kept[k])

AtMax(rows, field_name) ==
    SelectSeq(rows, LAMBDA r : \A i \in 1..Len(rows) : rows[i][field_name] <= r[field_name])

\* the rows whose quote in the column is the smallest one of the table
AtMin(rows, field_name) ==
    SelectSeq(rows, LAMBDA r : \A i \in 1..Len(rows) : r[field_name] <= rows[i][field_name])

\* the last query was _find_by_range on the column with v as both bounds
FoundAt(field_name, v) ==
    qOut.query = "find" /\ qOut.field = field_name /\ qOut.lo = v /\ qOut.hi = v

(* C22: _find_by_range on usd_sell with the max returned by                   *)
(* get_usd_sale_range as both bounds returns every row whose usd_sell is the  *)
(* largest of the table, and on usd_buy with the min returned by              *)
(* get_usd_purchase_range every row whose usd_buy is the smallest; no row of  *)
(* a tie is left out.                                                         *)
C22_EveryBankAtExtreme ==
    /\ FoundAt("usd_sell", get_usd_sale_range(db)[2])
       => ~qOut.raised /\ qOut.rows = AtMax(db, "usd_sell")
    /\ FoundAt("usd_buy", get_usd_purchase_range(db)[1])
       => ~qOut.raised /\ qOut.rows = AtMin(db, "usd_buy")

\* usd_sell = 3.10, 3.15, 3.15: both banks quoting 3.15 are returned
C22_Witness ==
    /\ Len(db) = 3
    /\ db[1].usd_sell = 310 /\ db[2].usd_sell = 315 /\ db[3].usd_sell = 315
    /\ FoundAt("usd_sell", 315)
    /\ qOut.rows = <<db[2], db[3]>>

\* fetch_html of this task has returned (to fetch_page_data, which ended)
Returned(t) == t.pc \in {"done", "raised"}

\* the GETs and sleeps of a call so far, against its retries parameter
BoundedAttempts(t) ==
    /\ t.gets <= t.retries
    /\ t.pc \in {"get", "sleep"} => Len(t.sleeps) = t.gets
    /\ t.pc = "sleep" => t.gets < t.retries
    /\ Returned(t) /\ t.gets > 0 => Len(t.sleeps) = t.gets - 1
    /\ Returned(t) /\ t.status = "ok" => ~t.html.isNone /\ t.gets > 0
    /\ Returned(t) /\ t.status # "ok" => t.html = None
    /\ t.status = "exhausted" => t.gets = t.retries

(* C23: a fetch_html call ends, and with at most `retries` GETs: while it     *)
(* runs every GET so far was followed by a sleep and a sleep is followed by   *)
(* another GET; once it has returned it takes no further step, it has slept   *)
(* one time less than it issued GETs (so not after the GET that succeeded     *)
(* and not after the last failed one), and it returned the page text exactly  *)
(* when its last GET succeeded.                                               *)
C23_BoundedAttempts ==
    /\ [](\A p \in Pages :
             /\ BoundedAttempts(tasks[p])
             /\ Returned(tasks[p]) => ~ENABLED FetchAttempt(p) /\ ~ENABLED Wake(p))
    /\ <>(\A p \in Pages : tasks[p].pc \notin {"get", "sleep"})

\* the page came on the 3rd GET of a call with retries = 4, after two sleeps
C23_Witness ==
    \E p \in Pages :
        /\ Returned(tasks[p])
        /\ tasks[p].status = "ok"
        /\ tasks[p].retries = 4
        /\ tasks[p].gets = 3
        /\ tasks[p].sleeps = <<2, 4>>

\* the row has no <a>, or an <a> without href
LacksLink(row) == row.a.isNone \/ row.a.v.href.isNone

\* the row's href has fewer than three '/'-separated parts
ShortLink(row) == HasHref(row) /\ Len(Split(row.a.v.href.v, "/")) < 3

LacksTimeOrLink(row) == row.time.isNone \/ LacksLink(row) \/ ShortLink(row)

\* the four quote cells are there and are numbers
QuotesParse(row) ==
    /\ HasQuoteCells(row)
    /\ \A i \in 1..2 : /\ ParseFloat(ReplaceComma(Strip(row.usd[i]))).ok
                       /\ ParseFloat(ReplaceComma(Strip(row.eur[i]))).ok

(* C24 as stated: if any row lacks a bank-name cell, a time element, a link,  *)
(* or has a link with fewer than three parts, parse_currency_table returns    *)
(* the empty sequence.                                                        *)
C24_AnyMalformedRowEmpties ==
    ~pOut.isNone /\ (\E k \in 1..Len(pHtml.rows) :
                         pHtml.rows[k].name.isNone \/ LacksTimeOrLink(pHtml.rows[k]))
    => pOut.v = <<>>

(* C24, as the code has it: if any row lacks a bank-name cell, or has four    *)
(* parseable quotes and lacks a time element, a link, or has a link with      *)
(* fewer than three parts, parse_currency_table returns the empty sequence,   *)
(* whatever records the earlier rows gave.  (A row whose quotes fail is       *)
(* skipped before its time and link are read.)                                *)
C24_FailedRowEmpties ==
    ~pOut.isNone /\ (\E k \in 1..Len(pHtml.rows) :
                         \/ pHtml.rows[k].name.isNone
                         \/ QuotesParse(pHtml.rows[k]) /\ LacksTimeOrLink(pHtml.rows[k]))
    => pOut.v = <<>>

\* a well-formed row, then a row with quotes and without a time element
C24_Witness ==
    /\ Len(pHtml.rows) = 2
    /\ WellFormed(pHtml.rows[1])
    /\ QuotesParse(pHtml.rows[2]) /\ pHtml.rows[2].time.isNone /\ ~LacksLink(pHtml.rows[2])
    /\ pOut = Some(<<>>)

\* the records of the pages of S, page after page from page p on
RECURSIVE InPageOrder(_, _)
InPageOrder(S, p) ==
    IF p > LastPage THEN <<>>
    ELSE (IF p \in S THEN parse_currency_table(PageDoc(p)) ELSE <<>>) \o InPageOrder(S, p + 1)

(* C25: what fetch_all_currencies returns depends only on which pages were   *)
(* fetched: it is the records of page 1, then those of page 2, of page 3 and  *)
(* of page 4, whatever the number of GETs and sleeps each task needed and     *)
(* so whatever the order the tasks ended in.                                  *)
C25_AggregateInPageOrder ==
    cycle = "Gathered"
    => all_currencies = InPageOrder({p \in Pages : tasks[p].status = "ok"}, 1)

\* page 1 came on its 3rd GET, page 2 on its 1st: the records of page 1 stand first
C25_Witness ==
    /\ cycle = "Gathered"
    /\ \A p \in Pages : tasks[p].status = "ok"
    /\ tasks[1].gets = 3 /\ tasks[2].gets = 1
    /\ tasks[1].out # <<>> /\ tasks[2].out # <<>>
    /\ all_currencies[1] = tasks[1].out[1]
    /\ all_currencies[Len(tasks[1].out) + 1] = tasks[2].out[1]

\* the records that carry this bank_en
WithKey(records, key) ==
    {k \in 1..Len(records) : HasKey(records[k]) /\ records[k].bank_en = key}

\* those of them that carry a field to update as well
UpdatableWithKey(records, key) == {k \in WithKey(records, key) : Updatable(records[k])}

\* the row holds the record's value in every field the record has
HoldsValuesOf(row, rec) == \A f \in DOMAIN rec \ {"bank_en"} : row[f] = rec[f]

\* the records without those of D
RECURSIVE Without(_, _, _)
Without(records, D, k) ==
    IF k > Len(records) THEN <<>>
    ELSE (IF k \in D THEN <<>> ELSE <<records[k]>>) \o Without(records, D, k + 1)

\* the run executed an UPDATE for every record of D, in the order of the records
AppliedInOrder(run, D) ==
    /\ \A k \in D : IsIssued(run, k)
    /\ \A a, b \in 1..Len(run.issued) : a < b => run.issued[a] < run.issued[b]

(* the records of D, two or more, were all applied to row i: the row holds    *)
(* the values of the last of them and each of them added one to the count     *)
LastOfDuplicatesStays(run, i, D) ==
    Cardinality(D) >= 2
    => /\ AppliedInOrder(run, D)
       /\ HoldsValuesOf(run.after[i], rRecords[MaxOf(D)])
       /\ run.count = bulk_update_currency(run.before, Without(rRecords, D, 1), 0).count
                      + Cardinality(D)

(* C26, as the code has it: when several records of a bulk_update_currency    *)
(* call that commits carry the same bank_en and a field to update, and a row  *)
(* with that bank_en exists, an UPDATE is executed for each of them in the    *)
(* order of the records, the row ends with the field values of the last of    *)
(* them, and each of them adds one to the count returned.                     *)
C26_LastOfDuplicatesStays ==
    \A n \in 1..Len(rRuns) :
        ~rRuns[n].raised
        => \A i \in 1..Len(rRuns[n].before) :
               LastOfDuplicatesStays(rRuns[n], i,
                                     UpdatableWithKey(rRecords, rRuns[n].before[i].bank_en))

(* C26 as stated: of several records that carry the bank_en of a row, each    *)
(* is applied and adds one to the count, whatever else it carries.            *)
C26_EveryDuplicateApplied ==
    \A n \in 1..Len(rRuns) :
        ~rRuns[n].raised
        => \A i \in 1..Len(rRuns[n].before) :
               LastOfDuplicatesStays(rRuns[n], i, WithKey(rRecords, rRuns[n].before[i].bank_en))

\* two records of one bank committed: a count of 2 and one row changed
C26_Witness ==
    /\ Len(rRuns) >= 1
    /\ ~rRuns[1].raised
    /\ Len(rRecords) = 2
    /\ Updatable(rRecords[1]) /\ Updatable(rRecords[2])
    /\ rRecords[1].bank_en = rRecords[2].bank_en
    /\ rRecords[1] # rRecords[2]
    /\ rRuns[1].count = 2
    /\ Cardinality({i \in 1..Len(rRuns[1].after) : rRuns[1].after[i] # rRuns[1].before[i]}) = 1
    /\ \E i \in 1..Len(rRuns[1].after) : HoldsValuesOf(rRuns[1].after[i], rRecords[2])

====
